---- MODULE Spec2Model ----
(***************************************************************************)
(* Model of lecroy.py: the LecroyBinaryWaveform reader of LeCroy binary    *)
(* oscilloscope traces.  A source is a sequence of bytes; the header       *)
(* decode, the lazily cached sample arrays, the time vector, the metadata  *)
(* mapping and the scoped open/close of the source are modelled from the   *)
(* code.  Floating point fields are kept as their bit patterns (the bytes  *)
(* in most-significant-first order): the claims are about byte order,      *)
(* lengths and control flow, not about IEEE arithmetic.                    *)
(***************************************************************************)
EXTENDS Integers, Sequences, FiniteSets, TLC

VARIABLES
  file,          \* the byte source on disk: a sequence of 0..255
  pc,            \* "new" | "ready" | "failed" | "discarded"
  self,          \* the instance's __dict__: attribute name -> value
  ret,           \* what the last call returned or raised
  opens,         \* how many times _open acquired the source
  closes,        \* how many times fh.close() ran
  decodes,       \* how many times a property getter ran read_raw_data
  fieldReads     \* how many _read calls the header decode issued

vars == <<file, pc, self, ret, opens, closes, decodes, fieldReads>>

\* ------------------------------------------------------------------ bounds

\* Largest WAVE_ARRAY_1_SIZE (bytes of payload) of an enumerated source.
MaxWave == 4
\* Largest sample count a caller asks for.
MaxCount == 3
\* Cap on the acquisitions of the source by one instance.
MaxOpens == 3

\* ------------------------------------------------------------- python bits

None == "None"

\* An attribute that is None or holds a value x.
NoValue == <<>>
Some(x) == <<x>>
IsNone(o) == Len(o) = 0
Val(o) == o[1]

Min(a, b) == IF a < b THEN a ELSE b

Ok(v) == [ok |-> TRUE, v |-> v]
Raise(e) == [ok |-> FALSE, err |-> e]

RECURSIVE Pow256(_)
Pow256(n) == IF n = 0 THEN 1 ELSE 256 * Pow256(n - 1)

Rev(s) == [i \in 1..Len(s) |-> s[Len(s) + 1 - i]]

\* The anchor token 'WAVEDESC' as ASCII codes.
WAVEDESC == <<87, 65, 86, 69, 68, 69, 83, 67>>

\* str.find: the lowest index (from 0) where tok occurs in h, or -1.
Find(h, tok) ==
  LET hits == {i \in 0..(Len(h) - Len(tok)) : SubSeq(h, i + 1, i + Len(tok)) = tok}
  IN  IF hits = {} THEN -1 ELSE CHOOSE i \in hits : \A j \in hits : i <= j

\* bytes.decode('ascii') raises on any byte above 127.
IsAscii(s) == \A i \in 1..Len(s) : s[i] < 128

\* fh.seek(addr); fh.read(nbytes): a read past the end returns what is there.
FileRead(f, addr, nbytes) == SubSeq(f, addr + 1, Min(addr + nbytes, Len(f)))

\* ------------------------------------------------- byte order and decoders

HIFIRST_of(comm_order) == comm_order = 0
LOFIRST_of(comm_order) == ~HIFIRST_of(comm_order)

make_fmt(comm_order, fmt) ==
  IF HIFIRST_of(comm_order) THEN <<">", fmt>> ELSE <<"<", fmt>>

\* The bytes of one item, most significant first, under a numpy format.
MsbFirst(s, fmt) == IF fmt[1] = ">" THEN s ELSE Rev(s)

RECURSIVE Unsigned(_)
Unsigned(m) ==
  IF Len(m) = 0 THEN 0 ELSE m[Len(m)] + 256 * Unsigned(SubSeq(m, 1, Len(m) - 1))

Signed(m) ==
  IF m[1] >= 128
  THEN (m[1] - 256) * Pow256(Len(m) - 1) + Unsigned(Tail(m))
  ELSE Unsigned(m)

RECURSIVE RStrip(_)
RStrip(s) ==
  IF Len(s) > 0 /\ s[Len(s)] = 0 THEN RStrip(SubSeq(s, 1, Len(s) - 1)) ELSE s

\* One item of numpy type fmt[2] from exactly its bytes.
Item(s, fmt) ==
  LET t == fmt[2] IN
  CASE t \in {"u1", "u2"} -> Unsigned(MsbFirst(s, fmt))
    [] t \in {"i1", "i2", "i4"} -> Signed(MsbFirst(s, fmt))
    [] t \in {"f4", "f8"} -> MsbFirst(s, fmt)
    [] OTHER -> RStrip(s)

\* np.fromstring(s, fmt)[0] with an item of itemsize bytes.
FromString0(s, itemsize, fmt) ==
  IF itemsize = 0 THEN Raise("ValueError")
  ELSE IF Len(s) % itemsize # 0 THEN Raise("ValueError")
  ELSE IF Len(s) = 0 THEN Raise("IndexError")
  ELSE Ok(Item(SubSeq(s, 1, itemsize), fmt))

read_(f, co, addr, nbytes, t) ==
  IF addr < 0 THEN Raise("IOError")
  ELSE FromString0(FileRead(f, addr, nbytes), nbytes, make_fmt(co, t))

read_byte(f, co, addr) == read_(f, co, addr, 1, "u1")
read_word(f, co, addr) == read_(f, co, addr, 2, "i2")
read_enum(f, co, addr) == read_(f, co, addr, 2, "u2")
read_long(f, co, addr) == read_(f, co, addr, 4, "i4")
read_float(f, co, addr) == read_(f, co, addr, 4, "f4")
read_double(f, co, addr) == read_(f, co, addr, 8, "f8")

\* result.decode('ascii') of a string read r.
decode_ascii(r) ==
  IF r.ok /\ ~IsAscii(r.v) THEN Raise("UnicodeDecodeError") ELSE r

read_string(f, co, addr, length) == decode_ascii(read_(f, co, addr, length, "S"))

\* ------------------------------------------------------------- enum tables

coupling_desc == <<"DC_50_Ohms", "ground", "DC_1MOhm", "ground", "AC,_1MOhm">>

processsing_desc ==
  <<"no_processing", "fir_filter", "interpolated", "sparsed", "autoscaled",
    "no_result", "rolling", "cumulative">>

record_types ==
  <<"single_sweep", "interleaved", "histogram", "graph", "filter_coefficient",
    "complex", "extrema", "sequence_obsolete", "centered_RIS", "peak_detect">>

\* The table without its last entry.
timebase_short ==
  <<"1_ps/div", "2_ps/div", "5_ps/div", "10_ps/div", "20_ps/div", "50_ps/div", "100_ps/div", "200_ps/div",
    "500_ps/div", "1_ns/div", "2_ns/div", "5_ns/div", "10_ns/div", "20_ns/div", "50_ns/div", "100_ns/div",
    "200_ns/div", "500_ns/div", "1_us/div", "2_us/div", "5_us/div", "10_us/div", "20_us/div", "50_us/div",
    "100_us/div", "200_us/div", "500_us/div", "1_ms/div", "2_ms/div", "5_ms/div", "10_ms/div", "20_ms/div",
    "50_ms/div", "100_ms/div", "200_ms/div", "500_ms/div", "1_s/div", "2_s/div", "5_s/div", "10_s/div", "20_s/div",
    "50_s/div", "100_s/div", "200_s/div", "500_s/div", "1_ks/div", "2_ks/div">>

timebase ==
  <<"1_ps/div", "2_ps/div", "5_ps/div", "10_ps/div", "20_ps/div", "50_ps/div", "100_ps/div", "200_ps/div",
    "500_ps/div", "1_ns/div", "2_ns/div", "5_ns/div", "10_ns/div", "20_ns/div", "50_ns/div", "100_ns/div",
    "200_ns/div", "500_ns/div", "1_us/div", "2_us/div", "5_us/div", "10_us/div", "20_us/div", "50_us/div",
    "100_us/div", "200_us/div", "500_us/div", "1_ms/div", "2_ms/div", "5_ms/div", "10_ms/div", "20_ms/div",
    "50_ms/div", "100_ms/div", "200_ms/div", "500_ms/div", "1_s/div", "2_s/div", "5_s/div", "10_s/div", "20_s/div",
    "50_s/div", "100_s/div", "200_s/div", "500_s/div", "1_ks/div", "2_ks/div", "5_ks/div">>

fixed_vert_gain ==
  <<"1_uV/div", "2_uV/div", "5_uV/div", "10_uV/div", "20_uV/div", "50_uV/div", "100_uV/div",
    "200_uV/div", "500_uV/div", "1_mV/div", "2_mV/div", "5_mV/div", "10_mV/div", "20_mV/div",
    "50_mV/div", "100_mV/div", "200_mV/div", "500_mV/div", "1_V/div", "2_V/div", "5_V/div",
    "10_V/div", "20_V/div", "50_V/div", "100_V/div", "200_V/div", "500_V/div", "1_kV/div">>

bandwith_limit == <<"off", "on">>

\* table[v] for the enum read v (v.v >= 0): the failed read itself, or
\* IndexError past the end of the list.
ListIndex(table, v) ==
  IF ~v.ok THEN v
  ELSE IF v.v < Len(table) THEN Ok(table[v.v + 1]) ELSE Raise("IndexError")

read_vert_coupling(f, co, addr) == ListIndex(coupling_desc, read_enum(f, co, addr))

read_processing_done(f, co, addr) == ListIndex(processsing_desc, read_enum(f, co, addr))

read_record_type(f, co, addr) == ListIndex(record_types, read_enum(f, co, addr))

\* The timebase name of the enum read v: 1000 is 'EXTERNAL'.
timebase_name(v) ==
  IF ~v.ok THEN v
  ELSE IF v.v = 1000 THEN Ok("EXTERNAL")
  ELSE ListIndex(timebase, v)

read_timebase(f, co, addr) == timebase_name(read_enum(f, co, addr))

read_fixed_vert_gain(f, co, addr) == ListIndex(fixed_vert_gain, read_enum(f, co, addr))

read_bandwidth_limit(f, co, addr) == ListIndex(bandwith_limit, read_enum(f, co, addr))

\* wave_source.get(v, ""): the sparse, permissive table.
wave_source_name(v) ==
  IF ~v.ok THEN v
  ELSE Ok(CASE v.v = 0 -> "CHANNEL_1" [] v.v = 1 -> "CHANNEL_2"
            [] v.v = 2 -> "CHANNEL_3" [] v.v = 3 -> "CHANNEL_4"
            [] v.v = 9 -> "UNKNOWN"   [] OTHER -> "")

read_wave_source(f, co, addr) == wave_source_name(read_enum(f, co, addr))

\* --------------------------------------------------------------- timestamp

IsLeap(y) == (y % 4 = 0 /\ y % 100 # 0) \/ y % 400 = 0

DaysInMonth(y, m) ==
  IF m = 2 THEN (IF IsLeap(y) THEN 29 ELSE 28)
  ELSE IF m \in {4, 6, 9, 11} THEN 30 ELSE 31

\* Whether the float64 with these bytes (most significant first) is a second
\* datetime() accepts: int(second) in 0..59 and a microsecond part in range.
\* A negative value other than -0.0 is taken as rejected.
SecondAccepted(m) ==
  LET negative == m[1] >= 128
      exponent == (m[1] % 128) * 16 + (m[2] \div 16)
      zero == exponent = 0 /\ m[2] % 16 = 0 /\ \A i \in 3..8 : m[i] = 0
  IN  \/ zero
      \/ ~negative /\ exponent < 1028
      \/ ~negative /\ exponent = 1028 /\ m[2] % 16 < 14

\* datetime(year, month, day, hour, minute, s, us) from the six reads: the
\* first failed read, or ValueError for a field out of range.
make_datetime(second, minute, hour, day, month, year) ==
  IF ~second.ok THEN second
  ELSE IF ~minute.ok THEN minute
  ELSE IF ~hour.ok THEN hour
  ELSE IF ~day.ok THEN day
  ELSE IF ~month.ok THEN month
  ELSE IF ~year.ok THEN year
  ELSE IF /\ year.v \in 1..9999
          /\ month.v \in 1..12
          /\ day.v \in 1..DaysInMonth(year.v, month.v)
          /\ hour.v \in 0..23
          /\ minute.v \in 0..59
          /\ SecondAccepted(second.v)
       THEN Ok([year |-> year.v, month |-> month.v, day |-> day.v,
                hour |-> hour.v, minute |-> minute.v, second |-> second.v])
       ELSE Raise("ValueError")

read_timestamp(f, co, addr) ==
  make_datetime(read_double(f, co, addr), read_byte(f, co, addr + 8),
                read_byte(f, co, addr + 9), read_byte(f, co, addr + 10),
                read_byte(f, co, addr + 11), read_word(f, co, addr + 12))

\* ------------------------------------------------------------ header decode

\* The first failing step of a list of <<name, result>> steps, or 0.
FirstBad(steps) ==
  LET bad == {i \in 1..Len(steps) : ~steps[i][2].ok}
  IN  IF bad = {} THEN 0 ELSE CHOOSE i \in bad : \A j \in bad : i <= j

\* The attributes the first n steps assigned: a later assignment of a name
\* replaces an earlier one.
Assigned(steps, n) ==
  [name \in {steps[i][1] : i \in 1..n} |->
     LET last == CHOOSE i \in 1..n :
                   /\ steps[i][1] = name
                   /\ \A j \in 1..n : steps[j][1] = name => j <= i
     IN  steps[last][2].v]

\* find('WAVEDESC') in the first 50 bytes: -1 when the token is absent.
find_anchor(header) == Find(header, WAVEDESC)

\* The assignments of _read_header after the byte order is resolved, in the
\* order of the code, each with the result of its right-hand side: a is the
\* anchor position (at(offset) is a + offset), order1 and order2 the two
\* reads of COMM_ORDER, co the byte order field the later reads run under,
\* wds, uts and tts the three sizes the user text and the payload are
\* located by.
header_fields(f, a, order1, order2, co, wds, uts, tts) ==
  <<  <<"aWAVEDESC", Ok(a)>>,
    <<"COMM_ORDER", Ok(0)>>,
    <<"COMM_ORDER", order1>>,
    <<"COMM_ORDER", order2>>,
    <<"TEMPLATE_NAME", read_string(f, co, a + 16, 16)>>,
    <<"COMM_TYPE", read_enum(f, co, a + 32)>>,
    <<"_WAVE_DESCRIPTOR_SIZE", wds>>,
    <<"_USER_TEXT_SIZE", uts>>,
    <<"_RES_DESC1_SIZE", read_long(f, co, a + 44)>>,
    <<"_TRIGTIME_ARRAY_SIZE", tts>>,
    <<"_RIS_TIME_ARRAY_SIZE", read_long(f, co, a + 52)>>,
    <<"_RES_ARRAY1_SIZE", read_long(f, co, a + 56)>>,
    <<"_WAVE_ARRAY_1_SIZE", read_long(f, co, a + 60)>>,
    <<"INSTRUMENT_NAME", read_string(f, co, a + 76, 16)>>,
    <<"INSTRUMENT_NUMBER", read_long(f, co, a + 92)>>,
    <<"TRACE_LABEL", read_string(f, co, a + 96, 16)>>,
    <<"WAVE_SOURCE", read_wave_source(f, co, a + 344)>>,
    <<"TRIG_TIME", read_timestamp(f, co, a + 296)>>,
    <<"RECORD_TYPE", read_record_type(f, co, a + 316)>>,
    <<"PROCESSING_DONE", read_processing_done(f, co, a + 318)>>,
    <<"TIMEBASE", read_timebase(f, co, a + 324)>>,
    <<"VERTICAL_GAIN", read_float(f, co, a + 156)>>,
    <<"VERTICAL_OFFSET", read_float(f, co, a + 160)>>,
    <<"VERTUNIT", read_string(f, co, a + 196, 16)>>,
    <<"FIXED_VERT_GAIN", read_fixed_vert_gain(f, co, a + 332)>>,
    <<"HORIZ_INTERVAL", read_float(f, co, a + 176)>>,
    <<"HORIZ_OFFSET", read_double(f, co, a + 180)>>,
    <<"HORUNIT", read_string(f, co, a + 244, 16)>>,
    <<"HORIZ_UNCERTAINTY", read_float(f, co, a + 292)>>,
    <<"VERT_COUPLING", read_vert_coupling(f, co, a + 326)>>,
    <<"PIXEL_OFFSET", read_double(f, co, a + 188)>>,
    <<"PNTS_PER_SCREEN", read_long(f, co, a + 120)>>,
    <<"FIRST_VALID_PNT", read_long(f, co, a + 124)>>,
    <<"LAST_VALID_PNT", read_long(f, co, a + 128)>>,
    <<"FIRST_POINT", read_long(f, co, a + 132)>>,
    <<"SPARSING_FACTOR", read_long(f, co, a + 136)>>,
    <<"SEGMENT_INDEX", read_long(f, co, a + 140)>>,
    <<"SUBARRAY_COUNT", read_long(f, co, a + 144)>>,
    <<"SWEEPS_PER_ACQ", read_long(f, co, a + 148)>>,
    <<"POINTS_PER_PAIR", read_word(f, co, a + 152)>>,
    <<"PAIR_OFFSET", read_word(f, co, a + 154)>>,
    <<"NOM_SUBARRAY_COUNT", read_word(f, co, a + 174)>>,
    <<"ACQ_DURATION", read_float(f, co, a + 312)>>,
    <<"RIS_SWEEPS", read_word(f, co, a + 322)>>,
    <<"PROBE_ATT", read_float(f, co, a + 328)>>,
    <<"MAX_VALUE", read_float(f, co, a + 164)>>,
    <<"MIN_VALUE", read_float(f, co, a + 168)>>,
    <<"NOMINAL_BITS", read_word(f, co, a + 172)>>,
    <<"BANDWIDTH_LIMIT", read_bandwidth_limit(f, co, a + 334)>>,
    <<"VERTICAL_VERNIER", read_float(f, co, a + 336)>>,
    <<"ACQ_VERT_OFFSET", read_float(f, co, a + 340)>>,
    <<"USER_TEXT",
      IF wds.ok /\ uts.ok /\ tts.ok /\ uts.v > 0
      THEN read_string(f, co, a + wds.v, uts.v)
      ELSE Ok(<<>>)>>,
    <<"_payload_offset",
      IF wds.ok /\ uts.ok /\ tts.ok
      THEN Ok(a + (wds.v + uts.v + tts.v)) ELSE Ok(0)>>
  >>

\* A single read of COMM_ORDER: the value decoded under the default order is
\* kept, without the second read.
second_order_once(f, a, order1) == order1

\* The two reads of COMM_ORDER at at(34): the first under the default
\* COMM_ORDER = 0, the second under the value the first one stored.
second_order(f, a, order1) ==
  IF order1.ok THEN read_enum(f, order1.v, a + 34) ELSE order1

order_value(order2) == IF order2.ok THEN order2.v ELSE 0

header_sized(f, a, order1, order2, co) ==
  header_fields(f, a, order1, order2, co,
                read_long(f, co, a + 36), read_long(f, co, a + 40),
                read_long(f, co, a + 48))

header_ordered(f, a, order1, order2) ==
  header_sized(f, a, order1, order2, order_value(order2))

header_anchored(f, a, order1) ==
  header_ordered(f, a, order1, second_order(f, a, order1))

\* The assignments of _read_header on source f after the anchor search.
header_steps(f) ==
  CHOOSE steps \in {header_anchored(f, a, read_enum(f, 0, a + 34)) :
                      a \in {find_anchor(FileRead(f, 0, 50))}} : TRUE

\* Whether the steps ran to the end, the exception if not, the attributes
\* set and the number of fields read.
header_outcome(steps) ==
  LET bad == FirstBad(steps)
      userText == IF Len(steps[Len(steps) - 1][2].v) > 0 THEN 1 ELSE 0
  IN  IF bad = 0
      THEN [ok |-> TRUE, err |-> None, attrs |-> Assigned(steps, Len(steps)),
            nreads |-> Len(steps) - 4 + userText]
      ELSE [ok |-> FALSE, err |-> steps[bad][2].err, attrs |-> <<>>,
            nreads |-> bad - 2]

\* The body of the with block of _read_header on source f.
read_header(f) ==
  IF ~IsAscii(FileRead(f, 0, 50))
  THEN [ok |-> FALSE, err |-> "UnicodeDecodeError", attrs |-> <<>>, nreads |-> 0]
  ELSE CHOOSE h \in {header_outcome(steps) : steps \in {header_steps(f)}} : TRUE

\* _open: the handle is closed by the statement after the yield, which runs
\* only when the body of the with block ends without an exception.
open_closes(bodyOk) == IF bodyOk THEN 1 ELSE 0

\* ----------------------------------------------------------- sample decode

\* Width in bytes of one sample: fmt 'i1' when COMM_TYPE is 0, else 'i2'.
sample_width(comm_type) == IF comm_type = 0 THEN 1 ELSE 2

\* read_raw_data's extent without the doubling of max_bytes for 2-byte samples.
raw_extent_undoubled(d, max_samples_count) ==
  LET w == sample_width(d.COMM_TYPE)
      nbytes0 == d._WAVE_ARRAY_1_SIZE
      nsamples0 == IF w = 1 THEN nbytes0 ELSE nbytes0 \div 2
  IN  IF max_samples_count > 0
      THEN [nsamples |-> Min(nsamples0, max_samples_count),
            nbytes |-> Min(nbytes0, max_samples_count)]
      ELSE [nsamples |-> nsamples0, nbytes |-> nbytes0]

\* (nsamples, nbytes) of read_raw_data for a requested count.
raw_extent(d, max_samples_count) ==
  LET w == sample_width(d.COMM_TYPE)
      nbytes0 == d._WAVE_ARRAY_1_SIZE
      nsamples0 == IF w = 1 THEN nbytes0 ELSE nbytes0 \div 2
      max_bytes == IF w = 1 THEN max_samples_count ELSE max_samples_count * 2
  IN  IF max_samples_count > 0
      THEN [nsamples |-> Min(nsamples0, max_samples_count),
            nbytes |-> Min(nbytes0, max_bytes)]
      ELSE [nsamples |-> nsamples0, nbytes |-> nbytes0]

\* np.fromstring(s, dtype((fmt, nsamples)))[0]: the first row of nsamples items.
FromStringRow(s, w, nsamples, fmt) ==
  LET itemsize == w * nsamples IN
  IF itemsize = 0 THEN Raise("ValueError")
  ELSE IF Len(s) % itemsize # 0 THEN Raise("ValueError")
  ELSE IF Len(s) = 0 THEN Raise("IndexError")
  ELSE Ok([i \in 1..nsamples |-> Item(SubSeq(s, (i - 1) * w + 1, i * w), fmt)])

\* read_raw_data on instance dict d and source f: the result, whether the
\* source was opened, whether it was closed, and the byte range asked for.
read_raw_data(d, f, max_samples_count) ==
  LET e == raw_extent(d, max_samples_count)
      w == sample_width(d.COMM_TYPE)
      fmt == make_fmt(d.COMM_ORDER, IF w = 1 THEN "i1" ELSE "i2")
      addr == d._payload_offset
  IN  IF e.nsamples < 0
      THEN [res |-> Raise("ValueError"), opened |-> 0, closed |-> 0,
            addr |-> addr, nbytes |-> e.nbytes]
      ELSE IF addr < 0
      THEN [res |-> Raise("IOError"), opened |-> 1, closed |-> open_closes(FALSE),
            addr |-> addr, nbytes |-> e.nbytes]
      ELSE [res |-> FromStringRow(FileRead(f, addr, e.nbytes), w, e.nsamples, fmt),
            opened |-> 1, closed |-> open_closes(TRUE),
            addr |-> addr, nbytes |-> e.nbytes]

\* VERTICAL_GAIN * raw - VERTICAL_OFFSET, elementwise, as a term over the
\* bit patterns of the two float32 fields.
read_wave_array(d, raw) ==
  [i \in 1..Len(raw) |->
     [gain |-> d.VERTICAL_GAIN, raw |-> raw[i], offset |-> d.VERTICAL_OFFSET]]

\* np.arange(0, n) * HORIZ_INTERVAL + HORIZ_OFFSET, as terms.
time_vector(d, n) ==
  [i \in 1..n |-> [index |-> i - 1, interval |-> d.HORIZ_INTERVAL,
                   offset |-> d.HORIZ_OFFSET]]

\* ---------------------------------------------------------------- metadata

\* The sampling_frequency property: 1 / HORIZ_INTERVAL, as a term.
sampling_frequency(d) == [one_over |-> d.HORIZ_INTERVAL]

\* The LOFIRST and HIFIRST properties of an instance.
LOFIRST(d) == LOFIRST_of(d.COMM_ORDER)
HIFIRST(d) == HIFIRST_of(d.COMM_ORDER)

\* A test that takes no name as private.
StartsWithUnderscore_never(name) == FALSE

\* name.startswith('_') over the attribute names the class assigns.
StartsWithUnderscore(name) ==
  name \in {"_count", "_inputfilename", "_file_content", "_WAVE_DESCRIPTOR_SIZE",
            "_USER_TEXT_SIZE", "_RES_DESC1_SIZE", "_TRIGTIME_ARRAY_SIZE",
            "_RIS_TIME_ARRAY_SIZE", "_RES_ARRAY1_SIZE", "_WAVE_ARRAY_1_SIZE",
            "_payload_offset", "_WAVE_ARRAY_1", "_WAVE_ARRAY_RAW"}

\* name.isupper() over the attribute names the class assigns: false for the
\* names holding a lower-case letter.
IsUpper(name) ==
  name \notin {"aWAVEDESC", "_count", "_inputfilename", "_file_content",
               "_payload_offset"}

\* The metadata property: the entries of vars(self) whose name is all caps
\* and does not start with an underscore.
metadata(d) ==
  [name \in {n \in DOMAIN d : ~StartsWithUnderscore(n) /\ IsUpper(n)} |-> d[name]]

\* ----------------------------------------------------------------- sources

\* A descriptor of 346 bytes as the instrument writes it, in the byte order
\* its COMM_ORDER bytes ob select, followed by uts bytes of user text and the
\* payload, of which the last `missing` bytes are cut off.
Encode(v, n, lofirst) ==
  LET msb == [i \in 1..n |-> (v \div Pow256(n - i)) % 256]
  IN  IF lofirst THEN Rev(msb) ELSE msb

PayloadByte(i) == (i * 77 + 130) % 256

Zeros(n) == [i \in 1..n |-> 0]

\* Offsets: 0 anchor, 16 template name, 32 COMM_TYPE, 34 COMM_ORDER, 36 and 40
\* the descriptor and user text sizes, 60 the wave array size, 76 instrument
\* name, 156 gain (2.0), 160 offset (1.0), 176 interval (1e-9), 196 and 244
\* the units, 304 minute, hour, day, month, 308 year, 324 timebase.
Descriptor(ob, ctype, wsize, tbase, uts) ==
  LET lo == ob # <<0, 0>> IN
  WAVEDESC \o Zeros(8)
    \o <<76, 69, 67, 82, 79, 89, 95, 50, 95, 51>> \o Zeros(6)
    \o Encode(ctype, 2, lo) \o ob \o Encode(346, 4, lo) \o Encode(uts, 4, lo)
    \o Zeros(16)
    \o Encode(wsize, 4, lo) \o Zeros(12)
    \o <<76, 69, 67, 82, 79, 89>> \o Zeros(74)
    \o (IF lo THEN <<0, 0, 0, 64>> ELSE <<64, 0, 0, 0>>)
    \o (IF lo THEN <<0, 0, 128, 63>> ELSE <<63, 128, 0, 0>>) \o Zeros(12)
    \o (IF lo THEN <<95, 112, 137, 48>> ELSE <<48, 137, 112, 95>>) \o Zeros(16)
    \o <<86>> \o Zeros(47)
    \o <<83>> \o Zeros(59)
    \o <<30, 12, 24, 6>> \o Encode(2012, 2, lo) \o Zeros(14)
    \o Encode(tbase, 2, lo) \o Zeros(20)

Source(kind, ob, ctype, wsize, tbase, uts, missing) ==
  LET desc == Descriptor(ob, ctype, wsize, tbase, uts)
      body == desc \o [i \in 1..uts |-> 64 + i]
                   \o [i \in 1..(wsize - missing) |-> PayloadByte(i)]
  IN  CASE kind = "plain"    -> body
        [] kind = "wrapped"  -> <<35, 32>> \o body
        [] kind = "chopped"  -> Tail(body)
        [] kind = "zeroed"   -> [i \in 1..8 |-> 0] \o SubSeq(body, 9, Len(body))
        [] kind = "nonascii" -> <<200, 32>> \o body

OrderBytes == {<<0, 0>>, <<1, 0>>, <<0, 1>>}

\* Byte pairs of the order field beyond the three the instrument and its
\* byte-swapped reading give.
MoreOrderBytes == OrderBytes \cup {<<1, 1>>, <<0, 112>>}

TimebaseCodes == {0, 46, 47, 48, 999, 1000, 1001}

Sources ==
  {Source(k, ob, ct, ws, 0, 0, ms) :
     k \in {"plain", "wrapped", "chopped"}, ob \in OrderBytes, ct \in {0, 1},
     ws \in 0..MaxWave, ms \in {0, 1}}
  \cup
  {Source("plain", ob, 0, 2, tb, ut, 0) :
     ob \in MoreOrderBytes, tb \in TimebaseCodes, ut \in {0, 2}}
  \cup
  {Source(k, <<0, 0>>, ct, 2, 0, 0, 0) : k \in {"zeroed", "nonascii"}, ct \in {0, 1}}
  \cup
  {[i \in 1..50 |-> 0]}

\* --------------------------------------------------------------- instance

NoRet == [op |-> "none", arg |-> 0, ok |-> TRUE, v |-> NoValue, err |-> None,
          addr |-> 0, nbytes |-> 0]

Returned(op, arg, r) ==
  [op |-> op, arg |-> arg, ok |-> r.ok,
   v |-> IF r.ok THEN Some(r.v) ELSE NoValue,
   err |-> IF r.ok THEN None ELSE r.err, addr |-> 0, nbytes |-> 0]

\* __init__: the three arguments, the header decode, then the two caches.
init_dict(count, h) ==
  h.attrs @@ [_count |-> count, _inputfilename |-> "trace.trc",
              _file_content |-> None,
              _WAVE_ARRAY_1 |-> NoValue, _WAVE_ARRAY_RAW |-> NoValue]

\* What an access leaves: the dict after it, its result, the acquisitions
\* and releases of the source, and the runs of read_raw_data by a getter.
Access(d, res, opened, closed, decoded) ==
  [d |-> d, res |-> res, opened |-> opened, closed |-> closed, decoded |-> decoded]

\* self._WAVE_ARRAY_RAW = self.read_raw_data(self._count), with r the call.
store_raw(d, r) ==
  Access(IF r.res.ok THEN [d EXCEPT !._WAVE_ARRAY_RAW = Some(r.res.v)] ELSE d,
         r.res, r.opened, r.closed, 1)

\* The WAVE_ARRAY_RAW property without the test of the cache.
get_wave_array_raw_uncached(d, f) ==
  store_raw(d, read_raw_data(d, f, d._count))

\* The WAVE_ARRAY_RAW property on dict d.
get_wave_array_raw(d, f) ==
  IF IsNone(d._WAVE_ARRAY_RAW)
  THEN store_raw(d, read_raw_data(d, f, d._count))
  ELSE Access(d, Ok(Val(d._WAVE_ARRAY_RAW)), 0, 0, 0)

\* self._WAVE_ARRAY_1 = self.read_wave_array(self._count), with r the access
\* to WAVE_ARRAY_RAW that read_wave_array makes.
store_wave(r) ==
  IF r.res.ok
  THEN Access([r.d EXCEPT !._WAVE_ARRAY_1 = Some(read_wave_array(r.d, r.res.v))],
              Ok(read_wave_array(r.d, r.res.v)), r.opened, r.closed, r.decoded)
  ELSE r

\* The WAVE_ARRAY_1 property.
get_wave_array_1(d, f) ==
  IF IsNone(d._WAVE_ARRAY_1)
  THEN store_wave(get_wave_array_raw(d, f))
  ELSE Access(d, Ok(Val(d._WAVE_ARRAY_1)), 0, 0, 0)

\* The time vector sized by the byte count of the payload.
get_wave_array_1_time_bytes(d) ==
  IF IsNone(d._WAVE_ARRAY_1) THEN Raise("AttributeError")
  ELSE Ok(time_vector(d, d._WAVE_ARRAY_1_SIZE))

\* The WAVE_ARRAY_1_time property: it reads self._WAVE_ARRAY_1.size, the
\* cache attribute itself, not the WAVE_ARRAY_1 property.
get_wave_array_1_time(d) ==
  IF IsNone(d._WAVE_ARRAY_1) THEN Raise("AttributeError")
  ELSE Ok(time_vector(d, Len(Val(d._WAVE_ARRAY_1))))

\* np.column_stack((x, y)) of the time column x and the access y to WAVE_ARRAY_1.
column_stack(x, y) ==
  IF ~y.res.ok THEN y
  ELSE Access(y.d, Ok([i \in 1..Len(x) |-> <<x[i], y.res.v[i]>>]),
              y.opened, y.closed, y.decoded)

\* The mat property with x the time column, which is evaluated first.
mat_of(d, f, x) ==
  IF ~x.ok THEN Access(d, x, 0, 0, 0)
  ELSE column_stack(x.v, get_wave_array_1(d, f))

get_mat(d, f) == mat_of(d, f, get_wave_array_1_time(d))

\* json.dumps of the metadata, each value through str(), with the two
\* exporter tags.
csv_header(meta) ==
  [name \in DOMAIN meta |-> <<"str", meta[name]>>]
    @@ [EXPORTER |-> "LECROY.PY", AUTHOR |-> "@freespace"]

\* savecsv with m the access to mat: the table, then the metadata.
csv_of(m) ==
  IF ~m.res.ok THEN m
  ELSE Access(m.d, Ok([header |-> csv_header(metadata(m.d)), rows |-> m.res.v]),
              m.opened, m.closed, m.decoded)

savecsv(d, f) == csv_of(get_mat(d, f))

\* (bwf.WAVE_ARRAY_1_time, bwf.WAVE_ARRAY_1.ravel())
column_pair(x, y) ==
  IF ~y.res.ok THEN y
  ELSE Access(y.d, Ok(<<x, y.res.v>>), y.opened, y.closed, y.decoded)

\* read_timetrace with the instance dict d: the time vector t first, then
\* the voltage array.
timetrace_of(d, f, t) ==
  IF ~t.ok THEN Access(d, t, 0, 0, 0)
  ELSE column_pair(t.v, get_wave_array_1(d, f))

\* ----------------------------------------------------------------- actions

Init ==
  /\ file \in Sources
  /\ pc = "new"
  /\ self = <<>>
  /\ ret = NoRet
  /\ opens = 0
  /\ closes = 0
  /\ decodes = 0
  /\ fieldReads = 0

\* LecroyBinaryWaveform(inputfilename, count=count)
Construct(count) ==
  /\ pc = "new"
  /\ \E h \in {read_header(file)} :
     /\ pc' = IF h.ok THEN "ready" ELSE "failed"
     /\ self' = IF h.ok THEN init_dict(count, h) ELSE <<>>
     /\ ret' = Returned("__init__", count, IF h.ok THEN Ok("instance") ELSE Raise(h.err))
     /\ opens' = opens + 1
     /\ closes' = closes + open_closes(h.ok)
     /\ fieldReads' = h.nreads
  /\ UNCHANGED <<file, decodes>>

\* read_timetrace(filename): a fresh instance, then the time vector and the
\* voltage array, in that order.
ReadTimetrace ==
  /\ pc = "new"
  /\ \E h \in {read_header(file)} :
       /\ fieldReads' = h.nreads
       /\ IF ~h.ok
          THEN /\ ret' = Returned("read_timetrace", 0, Raise(h.err))
               /\ opens' = opens + 1
               /\ closes' = closes + open_closes(FALSE)
               /\ UNCHANGED decodes
          ELSE \E r \in {timetrace_of(init_dict(-1, h), file,
                                      get_wave_array_1_time(init_dict(-1, h)))} :
               /\ ret' = Returned("read_timetrace", 0, r.res)
               /\ opens' = opens + 1 + r.opened
               /\ closes' = closes + open_closes(TRUE) + r.closed
               /\ decodes' = decodes + r.decoded
  /\ pc' = "discarded"
  /\ self' = <<>>
  /\ UNCHANGED file

\* What an access r did to the instance and the source.
Effect(op, r) ==
  /\ self' = r.d
  /\ ret' = Returned(op, 0, r.res)
  /\ opens' = opens + r.opened
  /\ closes' = closes + r.closed
  /\ decodes' = decodes + r.decoded
  /\ UNCHANGED <<file, pc, fieldReads>>

MayDecode == opens < MaxOpens /\ decodes < MaxOpens

GetWaveArrayRaw ==
  /\ pc = "ready"
  /\ IsNone(self._WAVE_ARRAY_RAW) => MayDecode
  /\ Effect("WAVE_ARRAY_RAW", get_wave_array_raw(self, file))

GetWaveArray1 ==
  /\ pc = "ready"
  /\ IsNone(self._WAVE_ARRAY_RAW) => MayDecode
  /\ Effect("WAVE_ARRAY_1", get_wave_array_1(self, file))

GetWaveArray1Time ==
  /\ pc = "ready"
  /\ ret' = Returned("WAVE_ARRAY_1_time", 0, get_wave_array_1_time(self))
  /\ UNCHANGED <<file, pc, self, opens, closes, decodes, fieldReads>>

GetMetadata ==
  /\ pc = "ready"
  /\ ret' = Returned("metadata", 0, Ok(metadata(self)))
  /\ UNCHANGED <<file, pc, self, opens, closes, decodes, fieldReads>>

GetMat ==
  /\ pc = "ready"
  /\ IsNone(self._WAVE_ARRAY_RAW) => MayDecode
  /\ Effect("mat", get_mat(self, file))

SaveCsv ==
  /\ pc = "ready"
  /\ IsNone(self._WAVE_ARRAY_RAW) => MayDecode
  /\ Effect("savecsv", savecsv(self, file))

\* A direct call of read_raw_data(max_samples_count): nothing is cached.
ReadRawData(n) ==
  /\ pc = "ready"
  /\ opens < MaxOpens
  /\ \E r \in {read_raw_data(self, file, n)} :
     /\ ret' = [Returned("read_raw_data", n, r.res) EXCEPT
                  !.addr = r.addr, !.nbytes = r.nbytes]
     /\ opens' = opens + r.opened
     /\ closes' = closes + r.closed
  /\ UNCHANGED <<file, pc, self, decodes, fieldReads>>

Counts == -1..MaxCount

Next ==
  \/ \E count \in Counts : Construct(count)
  \/ ReadTimetrace
  \/ GetWaveArrayRaw
  \/ GetWaveArray1
  \/ GetWaveArray1Time
  \/ GetMetadata
  \/ GetMat
  \/ SaveCsv
  \/ \E n \in Counts : ReadRawData(n)

Spec == Init /\ [][Next]_vars

\* ------------------------------------------------------------------ claims

\* The bytes b read by hand as a little-endian integer (signed for 4 bytes).
LittleEndian2(b) == b[1] + 256 * b[2]
LittleEndian2Signed(b) == b[1] + 256 * (IF b[2] >= 128 THEN b[2] - 256 ELSE b[2])
LittleEndian4(b) ==
  b[1] + 256 * b[2] + 65536 * b[3]
    + 16777216 * (IF b[4] >= 128 THEN b[4] - 256 ELSE b[4])
BigEndian2(b) == 256 * b[1] + b[2]

\* The two bytes of the order field of the source, at anchor + 34.
OrderField == FileRead(file, self.aWAVEDESC + 34, 2)

\* The samples the decoded header declares, and whether the source holds them.
Width == IF self.COMM_TYPE = 0 THEN 1 ELSE 2
Available == self._WAVE_ARRAY_1_SIZE \div Width
Aligned == self._WAVE_ARRAY_1_SIZE % Width = 0
PayloadAt ==
  self.aWAVEDESC + self._WAVE_DESCRIPTOR_SIZE + self._USER_TEXT_SIZE
    + self._TRIGTIME_ARRAY_SIZE
PayloadPresent == Len(file) >= PayloadAt + self._WAVE_ARRAY_1_SIZE

\* Sample i of the payload, decoded by hand in the order the source declares.
SampleByHand(i) ==
  LET b == FileRead(file, PayloadAt + (i - 1) * Width, Width)
      signed8(x) == IF x >= 128 THEN x - 256 ELSE x
  IN  IF Width = 1 THEN signed8(b[1])
      ELSE IF OrderField = <<0, 0>> THEN 256 * signed8(b[1]) + b[2]
      ELSE 256 * signed8(b[2]) + b[1]

\* A header-decoded instance of a source that has its anchor and holds its
\* whole payload, a whole number of samples and at least one of them.
ValidInstance ==
  /\ pc = "ready"
  /\ self.aWAVEDESC >= 0
  /\ Aligned
  /\ PayloadPresent
  /\ Available >= 1

\* C1: byte-order resolution.  On every header-decoded instance, order field
\* bytes 00 00 resolve to HIFIRST; any other pair resolves to LOFIRST, and
\* then COMM_ORDER and the later multi-byte fields (COMM_TYPE, the sizes, the
\* year, the gain bit pattern, 2-byte samples) equal the little-endian
\* reading of the raw bytes.
C1_ByteOrderResolved ==
  pc = "ready" =>
    LET a == self.aWAVEDESC IN
    /\ OrderField = <<0, 0>> => HIFIRST(self) /\ ~LOFIRST(self)
    /\ OrderField # <<0, 0>> =>
         /\ LOFIRST(self) /\ ~HIFIRST(self)
         /\ self.COMM_ORDER = LittleEndian2(OrderField)
         /\ self.COMM_TYPE = LittleEndian2(FileRead(file, a + 32, 2))
         /\ self._WAVE_DESCRIPTOR_SIZE = LittleEndian4(FileRead(file, a + 36, 4))
         /\ self._USER_TEXT_SIZE = LittleEndian4(FileRead(file, a + 40, 4))
         /\ self._WAVE_ARRAY_1_SIZE = LittleEndian4(FileRead(file, a + 60, 4))
         /\ self.TRIG_TIME.year = LittleEndian2Signed(FileRead(file, a + 308, 2))
         /\ self.VERTICAL_GAIN = Rev(FileRead(file, a + 156, 4))
         /\ ~IsNone(self._WAVE_ARRAY_RAW) =>
              \A i \in 1..Len(Val(self._WAVE_ARRAY_RAW)) :
                 Val(self._WAVE_ARRAY_RAW)[i] = SampleByHand(i)

\* C1 witness: a source with order bytes 00 01 was decoded: LOFIRST, the
\* stored COMM_ORDER is the little-endian 256, and 2-byte samples were read.
C1_Witness ==
  /\ pc = "ready"
  /\ self.aWAVEDESC >= 0
  /\ OrderField = <<0, 1>>
  /\ self.COMM_ORDER = 256
  /\ self.COMM_TYPE = 1
  /\ ~IsNone(self._WAVE_ARRAY_RAW)
  /\ Len(Val(self._WAVE_ARRAY_RAW)) = 2

\* C2: truncation is a prefix.  On a valid instance, read_raw_data(n) with
\* n > 0 returns the first min(available, n) samples of read_raw_data(-1),
\* having asked for min(waveArraySize, n * width) bytes at the payload
\* offset; with n <= 0 it returns all available samples, each as decoded by
\* hand from the payload bytes.
C2_TruncationIsPrefix ==
  (ValidInstance /\ ret.op = "read_raw_data") =>
    /\ ret.ok
    /\ ret.addr = PayloadAt
    /\ \E full \in {read_raw_data(self, file, -1).res} :
         /\ full.ok
         /\ Len(full.v) = Available
         /\ \A i \in 1..Available : full.v[i] = SampleByHand(i)
         /\ IF ret.arg > 0
            THEN /\ Val(ret.v) = SubSeq(full.v, 1, Min(Available, ret.arg))
                 /\ Len(Val(ret.v)) = Min(Available, ret.arg)
                 /\ ret.nbytes = Min(self._WAVE_ARRAY_1_SIZE, ret.arg * Width)
            ELSE /\ Val(ret.v) = full.v
                 /\ ret.nbytes = self._WAVE_ARRAY_1_SIZE

\* C2 witness: a truncating call on 2-byte samples returned fewer samples
\* than the source holds.
C2_Witness ==
  /\ ValidInstance
  /\ ret.op = "read_raw_data"
  /\ ret.ok
  /\ Width = 2
  /\ ret.arg > 0
  /\ ret.arg < Available
  /\ Len(Val(ret.v)) = ret.arg

ExpectedCount ==
  IF self._count > 0 THEN Min(Available, self._count) ELSE Available

\* C4: whenever they are available, the raw samples, the physical samples
\* and the time vector (also as the rows of mat) of one instance have the
\* same length, the sample count after truncation.
C4_SameLength ==
  pc = "ready" =>
    /\ ~IsNone(self._WAVE_ARRAY_RAW) =>
         Len(Val(self._WAVE_ARRAY_RAW)) = ExpectedCount
    /\ ~IsNone(self._WAVE_ARRAY_1) =>
         /\ ~IsNone(self._WAVE_ARRAY_RAW)
         /\ Len(Val(self._WAVE_ARRAY_1)) = Len(Val(self._WAVE_ARRAY_RAW))
    /\ (ret.op = "WAVE_ARRAY_1_time" /\ ret.ok) =>
         /\ ~IsNone(self._WAVE_ARRAY_1)
         /\ Len(Val(ret.v)) = Len(Val(self._WAVE_ARRAY_1))
         /\ Len(Val(ret.v)) = Len(Val(self._WAVE_ARRAY_RAW))
    /\ (ret.op = "mat" /\ ret.ok) =>
         Len(Val(ret.v)) = Len(Val(self._WAVE_ARRAY_RAW))

\* C4 witness: the time vector of a truncated 2-byte decode was returned.
C4_Witness ==
  /\ ValidInstance
  /\ ret.op = "WAVE_ARRAY_1_time"
  /\ ret.ok
  /\ Width = 2
  /\ self._count > 0
  /\ self._count < Available
  /\ Len(Val(ret.v)) = self._count

\* C5 as stated: when 'WAVEDESC' is not in the first 50 bytes, the header
\* decode fails, builds no instance, and reads no field at an offset
\* computed from the missing anchor.
C5_AnchorNotFound ==
  (pc # "new" /\ find_anchor(FileRead(file, 0, 50)) = -1) =>
    /\ pc # "ready"
    /\ fieldReads = 0

\* C6 as stated: with 2-byte samples and an odd waveArraySize, the sample
\* decode fails whatever count is requested (stated for sources that have
\* their anchor and hold the whole declared payload).
C6_MisalignedPayload ==
  (/\ pc = "ready"
   /\ self.aWAVEDESC >= 0
   /\ PayloadPresent
   /\ self.COMM_TYPE # 0
   /\ self._WAVE_ARRAY_1_SIZE % 2 = 1
   /\ ret.op \in {"read_raw_data", "WAVE_ARRAY_RAW", "WAVE_ARRAY_1"}) =>
    /\ ~ret.ok
    /\ IsNone(self._WAVE_ARRAY_RAW)

\* The timebase code of a source whose anchor is in place, read by hand.
TimebaseCode ==
  LET a == find_anchor(FileRead(file, 0, 50))
      b == FileRead(file, a + 324, 2)
  IN  IF FileRead(file, a + 34, 2) = <<0, 0>> THEN BigEndian2(b) ELSE LittleEndian2(b)

\* The header decode ran on a source with its anchor and plain ASCII lead.
HeaderTried ==
  /\ pc \in {"ready", "failed"}
  /\ find_anchor(FileRead(file, 0, 50)) >= 0
  /\ IsAscii(FileRead(file, 0, 50))

\* C7 as stated: code 46 is the largest table index, 1000 is EXTERNAL, and
\* code 47 fails.
C7_Code47Fails ==
  HeaderTried =>
    /\ TimebaseCode = 46 => pc = "ready" /\ self.TIMEBASE = "2_ks/div"
    /\ TimebaseCode = 1000 => pc = "ready" /\ self.TIMEBASE = "EXTERNAL"
    /\ TimebaseCode = 47 => pc = "failed"

\* C7 amended: the table has 48 entries: code 47 is the largest table index
\* and decodes to "5_ks/div" (46 to "2_ks/div"), code 1000 decodes to
\* "EXTERNAL", and code 48, like every other code outside 0..47 and 1000,
\* fails the header decode with an index error.
C7_Code48Fails ==
  HeaderTried =>
    /\ TimebaseCode = 0 => pc = "ready" /\ self.TIMEBASE = "1_ps/div"
    /\ TimebaseCode = 46 => pc = "ready" /\ self.TIMEBASE = "2_ks/div"
    /\ TimebaseCode = 47 => pc = "ready" /\ self.TIMEBASE = "5_ks/div"
    /\ TimebaseCode = 1000 => pc = "ready" /\ self.TIMEBASE = "EXTERNAL"
    /\ TimebaseCode \notin (0..47) \cup {1000} =>
         /\ pc = "failed"
         /\ ret.err = "IndexError"

\* C7 witness: a source with timebase code 47 was decoded.
C7_Witness ==
  /\ HeaderTried
  /\ find_anchor(FileRead(file, 0, 50)) >= 0
  /\ TimebaseCode = 47
  /\ pc = "ready"
  /\ self.TIMEBASE = "5_ks/div"

\* Whether source f decodes to a valid instance.
ValidSource(f) ==
  \E h \in {read_header(f)} :
    /\ h.ok
    /\ h.attrs.aWAVEDESC >= 0
    /\ \E w \in {sample_width(h.attrs.COMM_TYPE)} :
         /\ h.attrs._WAVE_ARRAY_1_SIZE % w = 0
         /\ h.attrs._WAVE_ARRAY_1_SIZE >= w
         /\ Len(f) >= h.attrs._payload_offset + h.attrs._WAVE_ARRAY_1_SIZE

\* C8 as stated: on a valid source, read_timetrace returns the time and the
\* voltage array, and mat and savecsv produce the table, also when
\* WAVE_ARRAY_1 has not been accessed before.
C8_TimeWithoutPriorAccess ==
  (ret.op \in {"read_timetrace", "mat", "savecsv"} /\ ValidSource(file)) => ret.ok

\* C9 as stated: no state has a source handle still open after its scope
\* was left: every acquisition has been released.
C9_HandleReleased == opens = closes

\* The names of the header fields that are not byte-layout bookkeeping.
HeaderFieldNames ==
  {"COMM_ORDER", "TEMPLATE_NAME", "COMM_TYPE", "INSTRUMENT_NAME",
   "INSTRUMENT_NUMBER", "TRACE_LABEL", "WAVE_SOURCE", "TRIG_TIME",
   "RECORD_TYPE", "PROCESSING_DONE", "TIMEBASE", "VERTICAL_GAIN",
   "VERTICAL_OFFSET", "VERTUNIT", "FIXED_VERT_GAIN", "HORIZ_INTERVAL",
   "HORIZ_OFFSET", "HORUNIT", "HORIZ_UNCERTAINTY", "VERT_COUPLING",
   "PIXEL_OFFSET", "PNTS_PER_SCREEN", "FIRST_VALID_PNT", "LAST_VALID_PNT",
   "FIRST_POINT", "SPARSING_FACTOR", "SEGMENT_INDEX", "SUBARRAY_COUNT",
   "SWEEPS_PER_ACQ", "POINTS_PER_PAIR", "PAIR_OFFSET", "NOM_SUBARRAY_COUNT",
   "ACQ_DURATION", "RIS_SWEEPS", "PROBE_ATT", "MAX_VALUE", "MIN_VALUE",
   "NOMINAL_BITS", "BANDWIDTH_LIMIT", "VERTICAL_VERNIER", "ACQ_VERT_OFFSET",
   "USER_TEXT"}

BlockSizeNames ==
  {"_WAVE_DESCRIPTOR_SIZE", "_USER_TEXT_SIZE", "_RES_DESC1_SIZE",
   "_TRIGTIME_ARRAY_SIZE", "_RIS_TIME_ARRAY_SIZE", "_RES_ARRAY1_SIZE",
   "_WAVE_ARRAY_1_SIZE"}

DerivedNames == {"sampling_frequency", "LOFIRST"}

\* C10 as stated: the metadata mapping holds every header field that is not
\* bookkeeping, leaves the block sizes out, and holds the derived sampling
\* frequency and loFirst.
C10_MetadataWithDerived ==
  (pc = "ready" /\ ret.op = "metadata") =>
    /\ HeaderFieldNames \subseteq DOMAIN Val(ret.v)
    /\ BlockSizeNames \cap DOMAIN Val(ret.v) = {}
    /\ DerivedNames \subseteq DOMAIN Val(ret.v)

\* C10 amended: the metadata mapping holds exactly the decoded header fields
\* that are not bookkeeping, each with its decoded value; the block sizes,
\* the anchor position, the payload offset, the caches and the derived
\* values (sampling frequency, LOFIRST, HIFIRST) are not in it: the derived
\* values are properties of the instance only.
C10_MetadataIsHeaderFields ==
  (pc = "ready" /\ ret.op = "metadata") =>
    /\ DOMAIN Val(ret.v) = HeaderFieldNames
    /\ \A name \in HeaderFieldNames : Val(ret.v)[name] = self[name]
    /\ LOFIRST(self) = ~HIFIRST(self)

\* C10 witness: the metadata of a little-endian source was returned.
C10_Witness ==
  /\ pc = "ready"
  /\ self.aWAVEDESC >= 0
  /\ ret.op = "metadata"
  /\ "TIMEBASE" \in DOMAIN Val(ret.v)
  /\ Val(ret.v)["COMM_ORDER"] = 1

====
